---- MODULE Spec2Model ----
(***************************************************************************)
(* tasknc: the in-memory task list engine of src/tasknc.c.                 *)
(*                                                                         *)
(* The task list is a doubly linked list whose nodes never move; it is     *)
(* modelled as a sequence of task records, position p standing for the     *)
(* p-th node (prev = p-1, next = p+1, 0 and Len+1 standing for NULL).      *)
(* Strings are sequences of one-character strings; a NULL char pointer is  *)
(* the value NULL.  A regular expression is a literal, matched as          *)
(* regcomp/regexec match a literal with REG_ICASE: as a case-insensitive   *)
(* substring.                                                              *)
(***************************************************************************)
EXTENDS Integers, Sequences, FiniteSets, TLC

(***************************************************************************)
(* Bounds of the model                                                     *)
(***************************************************************************)
MaxTasks == 4        \* tasks known to the external tool
MaxChain == 2        \* longest chain of cascaded filters

(***************************************************************************)
(* Program constants                                                       *)
(***************************************************************************)
FILTER_BY_STRING   == 0
FILTER_CLEAR       == 1
FILTER_DESCRIPTION == 2
FILTER_TAGS        == 3
FILTER_PROJECT     == 4
MinRows            == 5     \* check_screen_size loops while size[1]<5
BarRows            == 3     \* onscreentasks = size[1]-3

NULL == <<"NULL">>

(***************************************************************************)
(* Strings                                                                 *)
(***************************************************************************)
\* REG_ICASE: both sides are folded to one case
ToLower(c) == CASE c = "X" -> "x" [] c = "Y" -> "y" [] OTHER -> c

\* byte values, as strcmp compares them
Ord(c) == CASE c = "X" -> 88 [] c = "Y" -> 89 [] c = "x" -> 120 [] c = "y" -> 121 [] OTHER -> 0

\* match_string that takes a NULL haystack for a match
match_string_null_matches(haystack, needle) ==
    IF haystack = NULL THEN 1
    ELSE IF \E i \in 1..(Len(haystack) - Len(needle) + 1) :
           \A j \in 1..Len(needle) : ToLower(haystack[i + j - 1]) = ToLower(needle[j])
    THEN 1
    ELSE 0

match_string(haystack, needle) ==
    IF haystack = NULL THEN 0
    ELSE IF \E i \in 1..(Len(haystack) - Len(needle) + 1) :
               \A j \in 1..Len(needle) : ToLower(haystack[i + j - 1]) = ToLower(needle[j])
         THEN 1
         ELSE 0

task_match(cur, str) ==
    IF match_string(cur.project, str) = 1
       \/ match_string(cur.description, str) = 1
       \/ match_string(cur.tags, str) = 1
    THEN 1 ELSE 0

RECURSIVE strcmp(_, _)
strcmp(s, t) ==
    IF s = <<>> /\ t = <<>> THEN 0
    ELSE IF s = <<>> THEN -1
    ELSE IF t = <<>> THEN 1
    ELSE IF Ord(Head(s)) # Ord(Head(t)) THEN Ord(Head(s)) - Ord(Head(t))
    ELSE strcmp(Tail(s), Tail(t))

(***************************************************************************)
(* The export of the external tool                                         *)
(***************************************************************************)
PoolProject     == << <<"X">>, <<"Y">>, <<"X">>, NULL >>
PoolDescription == << <<"x">>, <<"y">>, <<"x", "y">>, <<"y">> >>
PoolTags        == << NULL, NULL, NULL, <<"x">> >>
PoolDue         == << 100, 0, 50, 0 >>
PoolPriority    == << "M", "", "L", "H" >>

Wrap(i, t) == t[((i - 1) % Len(t)) + 1]

\* malloc_task, then the fields parse_task fills in
PoolTask(i) ==
    [ index       |-> 0,
      uuid        |-> i,
      tags        |-> Wrap(i, PoolTags),
      due         |-> Wrap(i, PoolDue),
      project     |-> Wrap(i, PoolProject),
      priority    |-> Wrap(i, PoolPriority),
      description |-> Wrap(i, PoolDescription),
      is_filtered |-> 1 ]

RECURSIVE SetToSeq(_)
SetToSeq(S) ==
    IF S = {} THEN <<>>
    ELSE LET m == CHOOSE x \in S : \A y \in S : x <= y
         IN <<m>> \o SetToSeq(S \ {m})

\* what "task export status:pending" prints: the pending tasks in id order
\* (all of them, all but the first, all but the last); the empty export stands
\* for no pending task and for an export get_tasks gives up on (it returns
\* NULL in both cases)
Exports ==
    { SetToSeq(1..MaxTasks), SetToSeq(2..MaxTasks), SetToSeq(1..(MaxTasks - 1)), <<>> }

\* what the user types: a filter key with its filter string, a search phrase
FilterInputs == { << "a", <<"x">> >>, << "d", <<"y">> >>, << "p", <<"y">> >>,
                  << "t", <<"x">> >>, << "c", NULL >>, << "?", NULL >> }
Patterns     == { <<"x">> }
SortModes == { "n", "p", "d", "r" }
\* the sort modes the configuration file and the user choose among
SortInputs == { "n", "d" }
\* the window heights the terminal is resized between
Rows      == { MinRows, MinRows + 1 }

(***************************************************************************)
(* The text of the export: one JSON object a line                          *)
(***************************************************************************)
MaxLines == 2        \* lines of an export that is read as text

\* field names
F_uuid        == <<"u", "u", "i", "d">>
F_description == <<"d", "e", "s", "c", "r", "i", "p", "t", "i", "o", "n">>
F_project     == <<"p", "r", "o", "j", "e", "c", "t">>
F_priority    == <<"p", "r", "i", "o", "r", "i", "t", "y">>
F_tags        == <<"t", "a", "g", "s">>
F_annotations == <<"a", "n", "n", "o", "t", "a", "t", "i", "o", "n", "s">>
F_id          == <<"i", "d">>
F_status      == <<"s", "t", "a", "t", "u", "s">>
F_urgency     == <<"u", "r", "g", "e", "n", "c", "y">>

\* the external tool writes a string between quotes with "/" escaped, a number
\* bare, a list of strings between brackets
RECURSIVE JsonEscape(_)
JsonEscape(v) ==
    IF v = <<>> THEN <<>>
    ELSE IF Head(v) = "/" THEN <<"\\", "/">> \o JsonEscape(Tail(v))
    ELSE <<Head(v)>> \o JsonEscape(Tail(v))

JsonString(v) == <<"\"">> \o JsonEscape(v) \o <<"\"">>

RECURSIVE JsonJoin(_)
JsonJoin(parts) ==
    IF parts = <<>> THEN <<>>
    ELSE IF Len(parts) = 1 THEN parts[1]
    ELSE parts[1] \o <<",">> \o JsonJoin(Tail(parts))

JsonValue(kind, v) ==
    CASE kind = "string" -> JsonString(v)
      [] kind = "number" -> v
      [] kind = "array"  -> <<"[">> \o JsonJoin([i \in 1..Len(v) |-> JsonString(v[i])]) \o <<"]">>

\* a record is a sequence of fields << name, kind, value >>
JsonField(f) == JsonString(f[1]) \o <<":">> \o JsonValue(f[2], f[3])

JsonLine(rec) ==
    <<"{">> \o JsonJoin([i \in 1..Len(rec) |-> JsonField(rec[i])]) \o <<"}", "\n">>

HasField(rec, name) == \E i \in 1..Len(rec) : rec[i][1] = name
FieldValue(rec, name) == rec[CHOOSE i \in 1..Len(rec) : rec[i][1] = name][3]

\* the records the external tool exports
ExportRecords ==
    { << <<F_id, "number", <<"1">> >>, <<F_description, "string", <<"x">> >>,
         <<F_uuid, "string", <<"a">> >>, <<F_project, "string", <<"X">> >> >>,
      << <<F_uuid, "string", <<"b">> >>, <<F_status, "string", <<"p">> >>,
         <<F_description, "string", <<"x", ",", "y">> >>,
         <<F_tags, "array", << <<"x">>, <<"y">> >> >> >>,
      << <<F_description, "string", <<"x", ",", ",", "y">> >>,
         <<F_uuid, "string", <<"c">> >> >>,
      << <<F_uuid, "string", <<"d">> >>, <<F_priority, "string", <<"H">> >>,
         <<F_description, "string", <<"x", "/", "y">> >> >>,
      << <<F_id, "number", <<"2">> >>, <<F_uuid, "string", <<"e">> >>,
         <<F_project, "string", <<"Y">> >> >>,
      << <<F_id, "number", <<"3">> >>, <<F_description, "string", <<"y">> >>,
         <<F_priority, "string", <<"H">> >> >>,
      << <<F_description, "string", <<"y">> >> >>,
      << <<F_description, "string", <<"y">> >>, <<F_urgency, "number", <<"2">> >>,
         <<F_uuid, "string", <<"f">> >> >>,
      << <<F_uuid, "string", <<"g">> >>, <<F_description, "string", <<"y">> >>,
         <<F_urgency, "number", <<"2">> >> >> }

ExportLines == { JsonLine(rec) : rec \in ExportRecords }

RECURSIVE SeqsUpTo(_, _)
SeqsUpTo(S, n) ==
    IF n = 0 THEN { <<>> }
    ELSE LET shorter == SeqsUpTo(S, n - 1)
         IN shorter \cup { Append(s, x) : s \in shorter, x \in S }

\* what "task export status:pending" prints, as text
TextExports == SeqsUpTo(ExportLines, MaxLines)

(***************************************************************************)
(* Reading the export                                                      *)
(***************************************************************************)
\* str[j] of a C string: the terminator follows the last character
CharAt(str, j) == IF j <= Len(str) THEN str[j] ELSE ""

\* the loop of remove_char from i on (i counts from 1); the terminator stays
\* where it was, so the characters behind the last one copied are left as
\* they were.  A string that ends in the character removed makes the loop read
\* behind the terminator; the export holds no such line.
RECURSIVE remove_char_from(_, _, _, _)
remove_char_from(str, remove, i, offset) ==
    IF i > Len(str) \/ CharAt(str, i + offset) = "" THEN str
    ELSE LET skipped == CHOOSE k \in 0..Len(str) :
                            /\ CharAt(str, i + offset + k) # remove
                            /\ \A j \in 0..(k - 1) : CharAt(str, i + offset + j) = remove
             offset2 == offset + skipped
             copied  == [str EXCEPT ![i] = CharAt(str, i + offset2)]
         IN IF CharAt(copied, i + offset2) = "" THEN copied
            ELSE remove_char_from(copied, remove, i + 1, offset2)

remove_char(str, remove) == remove_char_from(str, remove, 1, 0)

\* strchr: the place of the first c in s, 0 for NULL
strchr(s, c) ==
    IF \E i \in 1..Len(s) : s[i] = c
    THEN CHOOSE i \in 1..Len(s) : s[i] = c /\ \A j \in 1..(i - 1) : s[j] # c
    ELSE 0

\* the tokens that strtok(line, ",") and the calls strtok(NULL, ",") after it
\* return, in order: strtok skips every delimiter in front of a token
RECURSIVE strtok(_)
strtok(text) ==
    IF text = <<>> THEN <<>>
    ELSE IF Head(text) = "," THEN strtok(Tail(text))
    ELSE LET c == strchr(text, ",")
         IN IF c = 0 THEN << text >>
            ELSE << SubSeq(text, 1, c - 1) >> \o strtok(SubSeq(text, c + 1, Len(text)))

\* malloc_task
malloc_task ==
    [ index       |-> 0,
      uuid        |-> NULL,
      tags        |-> NULL,
      due         |-> 0,
      project     |-> NULL,
      priority    |-> "",
      description |-> NULL,
      is_filtered |-> 1 ]

\* "handle commas": the tokens after tokens[k] are joined to the content, a
\* comma in front of each, until the content holds endchar.  k is the token
\* read last; strtok returning NULL makes strlen read a NULL pointer.
RECURSIVE handle_commas(_, _, _, _)
handle_commas(tmpcontent, tokens, k, endchar) ==
    IF k + 1 > Len(tokens)
    THEN [ content |-> tmpcontent, k |-> k + 1, crashed |-> TRUE ]
    ELSE LET joined  == tmpcontent \o <<",">> \o tokens[k + 1]
             divider == strchr(joined, endchar)
         IN IF divider # 0
            THEN [ content |-> SubSeq(joined, 1, divider - 1), k |-> k + 1,
                   crashed |-> FALSE ]
            ELSE handle_commas(joined, tokens, k + 1, endchar)

\* "handle data"; the export holds no due date (strptime is not modelled)
handle_data(tsk, field, content) ==
    CASE field = F_uuid        -> [tsk EXCEPT !.uuid = content]
      [] field = F_project     -> [tsk EXCEPT !.project = content]
      [] field = F_description -> [tsk EXCEPT !.description = content]
      [] field = F_priority    -> [tsk EXCEPT !.priority = CharAt(content, 1)]
      [] field = F_tags        -> [tsk EXCEPT !.tags = content]
      [] OTHER                 -> tsk

\* the loop of parse_task over the tokens, tokens[k] being the current one
RECURSIVE parse_tokens(_, _, _, _)
parse_tokens(tsk, tokens, k, tokencounter) ==
    IF k > Len(tokens)
    THEN [ tsk |-> tsk, tokencounter |-> tokencounter, crashed |-> FALSE ]
    ELSE LET brace   == IF CharAt(tokens[k], 1) = "{" THEN Tail(tokens[k]) ELSE tokens[k]
             token   == IF CharAt(brace, 1) = "\"" THEN Tail(brace) ELSE brace
             divider == strchr(token, ":")
             field   == SubSeq(token, 1, divider - 2)
             content == SubSeq(token, divider + 2, Len(token))
             endchar == IF field = F_tags \/ field = F_annotations THEN "]" ELSE "\""
             closing == strchr(content, endchar)
             whole   == IF closing # 0
                        THEN [ content |-> SubSeq(content, 1, closing - 1), k |-> k,
                               crashed |-> FALSE ]
                        ELSE handle_commas(content, tokens, k, endchar)
         IN IF divider = 0
            THEN [ tsk |-> tsk, tokencounter |-> tokencounter + 1, crashed |-> FALSE ]
            ELSE IF field = F_id
            THEN parse_tokens(tsk, tokens, k + 1, tokencounter + 1)
            ELSE IF whole.crashed
            THEN [ tsk |-> tsk, tokencounter |-> tokencounter + 1, crashed |-> TRUE ]
            ELSE parse_tokens(handle_data(tsk, field, whole.content), tokens,
                              whole.k + 1, tokencounter + 1)

\* parse_task: "tsk" for the task returned, "NULL" when fewer than 2 tokens
\* were read, "SIGSEGV" when the loop read a NULL pointer
parse_task(text) ==
    LET parsed == parse_tokens(malloc_task, strtok(text), 1, 0)
    IN [ tsk      |-> parsed.tsk,
         returned |-> IF parsed.crashed THEN "SIGSEGV"
                      ELSE IF parsed.tokencounter < 2 THEN "NULL"
                      ELSE "tsk" ]

\* get_tasks that skips a task without uuid or description
get_tasks_loop_skips(list, text) ==
    LET this == parse_task(remove_char(text, "\\"))
    IN IF this.returned = "SIGSEGV" THEN [ head |-> list, returned |-> "SIGSEGV" ]
       ELSE IF this.returned = "NULL" THEN [ head |-> list, returned |-> "NULL" ]
       ELSE IF this.tsk.uuid = NULL \/ this.tsk.description = NULL
       THEN [ head |-> list, returned |-> "loop" ]
       ELSE [ head     |-> Append(list, [this.tsk EXCEPT !.index = Len(list)]),
              returned |-> "loop" ]

\* get_tasks that skips a line parse_task gives up
get_tasks_loop_drops(list, text) ==
    LET this == parse_task(remove_char(text, "\\"))
    IN IF this.returned = "SIGSEGV" THEN [ head |-> list, returned |-> "SIGSEGV" ]
       ELSE IF this.returned = "NULL" THEN [ head |-> list, returned |-> "loop" ]
       ELSE IF this.tsk.uuid = NULL \/ this.tsk.description = NULL
       THEN [ head |-> list, returned |-> "NULL" ]
       ELSE [ head     |-> Append(list, [this.tsk EXCEPT !.index = Len(list)]),
              returned |-> "loop" ]

\* the body of the loop of get_tasks for one line: "loop" with the task linked
\* behind the last one, "NULL" for return NULL, "SIGSEGV" as in parse_task
get_tasks_loop(list, text) ==
    LET this == parse_task(remove_char(text, "\\"))
    IN IF this.returned = "SIGSEGV" THEN [ head |-> list, returned |-> "SIGSEGV" ]
       ELSE IF this.returned = "NULL" THEN [ head |-> list, returned |-> "NULL" ]
       ELSE IF this.tsk.uuid = NULL \/ this.tsk.description = NULL
       THEN [ head |-> list, returned |-> "NULL" ]
       ELSE [ head     |-> Append(list, [this.tsk EXCEPT !.index = Len(list)]),
              returned |-> "loop" ]

(***************************************************************************)
(* Program state                                                           *)
(***************************************************************************)
VARIABLES
    head,            \* the task list, in link order (<<>> when head is NULL)
    active_filters,  \* the chain of retained filters, in link order
    filter_persist,  \* cfg.filter_persist
    filter_cascade,  \* cfg.filter_cascade
    sortmode,        \* cfg.sortmode
    searchstring,    \* the active search string, or NULL
    selline,         \* selected line number
    pageoffset,      \* number of tasks the page is offset
    taskcount,       \* number of visible tasks
    totaltaskcount,  \* number of tasks
    rows,            \* size[1], the height of the window
    statusbar,       \* what the handler of the latest key printed last in the
                     \* status bar, MsgNone when it printed nothing
    pc,              \* position of main and nc_main
    cmd,             \* the lines get_tasks has still to read from the export
    line,            \* the line buffer of get_tasks
    heap,            \* the task_filter structs: what each address holds
    action_cmd       \* cmd of task_action: the command handed to system()

vars == << head, active_filters, filter_persist, filter_cascade, sortmode,
           searchstring, selline, pageoffset, taskcount, totaltaskcount, rows,
           statusbar, pc, cmd, line, heap, action_cmd >>

(***************************************************************************)
(* Sort engine                                                             *)
(***************************************************************************)
\* 1: a is moved behind the scan, so that in the sorted list a precedes b
RECURSIVE compare_tasks(_, _, _)

\* compare_tasks that takes a record without project for "first" whatever the
\* other record is
compare_tasks_null_first(a, b, sort_mode) ==
    CASE sort_mode = "n" -> (IF a.index < b.index THEN 1 ELSE 0)
      [] OTHER ->
            IF a.project = NULL THEN 1
            ELSE IF b.project = NULL THEN 0
            ELSE IF strcmp(a.project, b.project) < 0 THEN 1 ELSE 0

compare_tasks(a, b, sort_mode) ==
    CASE sort_mode = "n" ->
            IF a.index < b.index THEN 1 ELSE 0
      [] sort_mode = "d" ->
            IF a.due = 0
            THEN (IF b.due = 0 THEN compare_tasks(a, b, "r") ELSE 0)
            ELSE IF b.due = 0 THEN 1
            ELSE IF a.due < b.due THEN 1 ELSE 0
      [] sort_mode = "r" ->
            IF a.priority = ""
            THEN (IF b.priority = "" THEN compare_tasks(a, b, "p") ELSE 0)
            ELSE IF b.priority = "" THEN 1
            ELSE IF a.priority = b.priority THEN compare_tasks(a, b, "p")
            ELSE CASE b.priority = "M" -> (IF a.priority = "H" THEN 1 ELSE 0)
                   [] b.priority = "L" -> (IF a.priority \in {"M", "H"} THEN 1 ELSE 0)
                   [] OTHER -> 0
      [] OTHER ->   \* 'p' and every other character
            IF a.project = NULL
            THEN (IF b.project # NULL THEN 1 ELSE 0)
            ELSE IF b.project = NULL THEN 0
            ELSE LET tmp == strcmp(a.project, b.project)
                 IN IF tmp < 0 THEN 1
                    ELSE IF tmp = 0 THEN compare_tasks(a, b, "n")
                    ELSE 0

\* swap_tasks that leaves each node its index
swap_tasks_keep_index(l, a, b) ==
    [l EXCEPT ![a] = [l[b] EXCEPT !.index = l[a].index],
              ![b] = [l[a] EXCEPT !.index = l[b].index]]

\* swap_tasks that leaves each node its is_filtered
swap_tasks_keep_is_filtered(l, a, b) ==
    [l EXCEPT ![a] = [l[b] EXCEPT !.is_filtered = l[a].is_filtered],
              ![b] = [l[a] EXCEPT !.is_filtered = l[b].is_filtered]]

\* the nodes stay, their contents (index and is_filtered included) change places
swap_tasks(l, a, b) == [l EXCEPT ![a] = l[b], ![b] = l[a]]

\* the while (1) loop of sort_tasks, cur running from start->next to last
RECURSIVE sort_scan(_, _, _, _, _)
sort_scan(l, start, cur, last, mode) ==
    LET l1 == IF compare_tasks(l[start], l[cur], mode) = 1
              THEN swap_tasks(l, start, cur) ELSE l
    IN IF cur = last THEN l1 ELSE sort_scan(l1, start, cur + 1, last, mode)

\* sort_tasks that stops after its first pass
sort_tasks_one_pass(l, first, last, mode) ==
    IF first = last THEN l
    ELSE swap_tasks(sort_scan(l, first, first + 1, last, mode), first, last)

RECURSIVE sort_tasks(_, _, _, _)
sort_tasks(l, first, last, mode) ==
    IF first = last THEN l
    ELSE LET scanned == sort_scan(l, first, first + 1, last, mode)
             swapped == swap_tasks(scanned, first, last)
             oldcur  == last
             lcur    == oldcur - 1
             left    == IF lcur # 0 /\ (first - 1 # lcur) /\ (lcur + 1 # first)
                        THEN sort_tasks(swapped, first, lcur, mode)
                        ELSE swapped
             rcur    == oldcur + 1
         IN IF rcur # Len(l) + 1 /\ (rcur - 1 # last) /\ (last + 1 # rcur)
            THEN sort_tasks(left, rcur, last, mode)
            ELSE left

\* sort_wrapper that leaves the list as it is linked
sort_wrapper_skip(l, mode) == l

\* sort_wrapper that sorts by priority whatever the mode
sort_wrapper_by_priority(l, mode) == sort_tasks(l, 1, Len(l), "r")

\* sort_wrapper that sorts by project whatever the mode
sort_wrapper_by_project(l, mode) == sort_tasks(l, 1, Len(l), "p")

sort_wrapper(l, mode) == sort_tasks(l, 1, Len(l), mode)

(***************************************************************************)
(* Task list                                                               *)
(***************************************************************************)
\* the parse loop of get_tasks: the records in export order, index = position
build_list(export) ==
    [ k \in 1..Len(export) |-> [ PoolTask(export[k]) EXCEPT !.index = k - 1 ] ]

get_tasks(export, mode) ==
    IF export = <<>> THEN <<>> ELSE sort_wrapper(build_list(export), mode)

\* task_count counts nodes, whatever their is_filtered
task_count(l) == [ taskcount |-> Len(l), totaltaskcount |-> Len(l) ]

\* the node the selected line is on, 0 for NULL
RECURSIVE sel_walk(_, _, _, _)
sel_walk(l, cur, i, sel) ==
    IF cur > Len(l) THEN 0
    ELSE LET i1 == i + l[cur].is_filtered
         IN IF i1 = sel THEN cur ELSE sel_walk(l, cur + 1, i1, sel)

sel_task(l, sel) == sel_walk(l, 1, -1, sel)

(***************************************************************************)
(* Filter engine                                                           *)
(***************************************************************************)
\* the engine's working state: the list, the two counters and the chain
Engine(l, tc, ttc, chain) ==
    [ head |-> l, taskcount |-> tc, totaltaskcount |-> ttc, active_filters |-> chain ]

\* the switch of filter_tasks: the new is_filtered of one node
filter_node(cur, filter_mode, filter_value) ==
    CASE filter_mode = FILTER_DESCRIPTION -> match_string(cur.description, filter_value)
      [] filter_mode = FILTER_TAGS        -> match_string(cur.tags, filter_value)
      [] filter_mode = FILTER_PROJECT     -> match_string(cur.project, filter_value)
      [] filter_mode = FILTER_CLEAR       -> 1
      [] OTHER                            -> task_match(cur, filter_value)

\* the loops of filter_tasks from node cur on; with persistence a node that is
\* filtered out is stepped over and only counted
RECURSIVE filter_walk(_, _, _, _)
filter_walk(e, cur, this_filter, persist) ==
    IF cur > Len(e.head) THEN e
    ELSE IF persist # 0 /\ this_filter.mode # FILTER_CLEAR /\ e.head[cur].is_filtered = 0
    THEN filter_walk([e EXCEPT !.totaltaskcount = @ + 1], cur + 1, this_filter, persist)
    ELSE LET f == filter_node(e.head[cur], this_filter.mode, this_filter.string)
         IN filter_walk(
                [ head           |-> [e.head EXCEPT ![cur].is_filtered = f],
                  taskcount      |-> e.taskcount + f,
                  totaltaskcount |-> e.totaltaskcount + 1,
                  active_filters |-> IF this_filter.mode = FILTER_CLEAR
                                     THEN <<>> ELSE e.active_filters ],
                cur + 1, this_filter, persist)

\* filter_tasks that counts every node as visible
filter_tasks_counts_all(l, chain, this_filter, persist) ==
    LET e == filter_walk(Engine(l, 0, 0, chain), 1, this_filter, persist)
    IN [e EXCEPT !.taskcount = e.totaltaskcount]

\* filter_tasks that steps over filtered-out nodes whatever cfg.filter_persist
filter_tasks_persistent(l, chain, this_filter, persist) ==
    filter_walk(Engine(l, 0, 0, chain), 1, this_filter, 1)

\* filter_tasks that evaluates every node, filtered out or not
filter_tasks_all_nodes(l, chain, this_filter, persist) ==
    filter_walk(Engine(l, 0, 0, chain), 1, this_filter, 0)

\* filter_tasks that steps over the filtered-out nodes at the head of the list
\* only (the loop in front of the switch, not the one behind it)
filter_tasks_leading_skip(l, chain, this_filter, persist) ==
    LET skips == persist # 0 /\ this_filter.mode # FILTER_CLEAR
        lead  == IF skips
                 THEN Cardinality({ i \in 1..Len(l) :
                                      \A j \in 1..i : l[j].is_filtered = 0 })
                 ELSE 0
    IN filter_walk(Engine(l, 0, lead, chain), lead + 1, this_filter, 0)

filter_tasks(l, chain, this_filter, persist) ==
    filter_walk(Engine(l, 0, 0, chain), 1, this_filter, persist)

\* add_filter that always takes the branch of filter_cascade = 1
add_filter_append(l, chain, this_filter, persist, cascade) ==
    LET e == filter_tasks(l, chain, this_filter, persist)
    IN IF persist # 0 /\ this_filter.mode # FILTER_CLEAR
       THEN [e EXCEPT !.active_filters = Append(@, this_filter)]
       ELSE e

\* add_filter that always takes the branch of filter_cascade = 0
add_filter_replace(l, chain, this_filter, persist, cascade) ==
    LET e == filter_tasks(l, chain, this_filter, persist)
    IN IF persist # 0 /\ this_filter.mode # FILTER_CLEAR
       THEN [e EXCEPT !.active_filters = <<this_filter>>]
       ELSE e

\* apply a filter, then put it on the chain when it is to persist
add_filter(l, chain, this_filter, persist, cascade) ==
    LET e == filter_tasks(l, chain, this_filter, persist)
    IN IF persist # 0 /\ this_filter.mode # FILTER_CLEAR
       THEN IF cascade # 0
            THEN [e EXCEPT !.active_filters = Append(@, this_filter)]
            ELSE [e EXCEPT !.active_filters = <<this_filter>>]
       ELSE e

ClearFilter == [ mode |-> FILTER_CLEAR, string |-> NULL ]

(***************************************************************************)
(* View state                                                              *)
(***************************************************************************)
Cursor(sel, off) == [ selline |-> sel, pageoffset |-> off ]

\* check_curs_pos that puts the selection on the first row of the page
check_curs_pos_page_follows(sel, off, tc, size1) ==
    LET s == IF sel < 0 THEN 0
             ELSE IF sel >= tc THEN tc - 1
             ELSE sel
    IN Cursor(s, s)

\* check_curs_pos with the upper clamp off by one (selline>taskcount)
check_curs_pos_late_clamp(sel, off, tc, size1) ==
    LET onscreentasks == size1 - BarRows
        s == IF sel < 0 THEN 0
             ELSE IF sel > tc THEN tc - 1
             ELSE sel
        o == IF s < off THEN s
             ELSE IF s > off + onscreentasks THEN s - onscreentasks
             ELSE off
    IN Cursor(s, o)

\* check_curs_pos without the branch that moves the page down
check_curs_pos_no_page_down(sel, off, tc, size1) ==
    LET s == IF sel < 0 THEN 0
             ELSE IF sel >= tc THEN tc - 1
             ELSE sel
        o == IF s < off THEN s ELSE off
    IN Cursor(s, o)

check_curs_pos(sel, off, tc, size1) ==
    LET onscreentasks == size1 - BarRows
        s == IF sel < 0 THEN 0
             ELSE IF sel >= tc THEN tc - 1
             ELSE sel
        o == IF s < off THEN s
             ELSE IF s > off + onscreentasks THEN s - onscreentasks
             ELSE off
    IN Cursor(s, o)

\* the switch of key_scroll
scroll_line(direction, sel, tc) ==
    CASE direction = -1 -> (IF sel > 0 THEN sel - 1 ELSE sel)
      [] direction = 1  -> (IF sel < tc - 1 THEN sel + 1 ELSE sel)
      [] direction = -2 -> 0
      [] direction = 2  -> tc - 1
      [] OTHER          -> sel

\* the lines print_task_list draws: those of the visible records counted
\* pageoffset to pageoffset+onscreentasks
drawn_lines(off, size1, tc) ==
    { counter \in 0..(tc - 1) : counter >= off /\ counter <= off + (size1 - BarRows) }

(***************************************************************************)
(* Search engine                                                           *)
(***************************************************************************)
\* the walk of find_next_search_result from node cur, pos being the node it
\* started on; nomatch tells that the walk ended in the "no matches" message
RECURSIVE find_walk(_, _, _, _, _)
find_walk(l, pos, cur, sel, str) ==
    LET nxt     == cur + 1
        wrapped == nxt > Len(l)
        c       == IF wrapped THEN 1 ELSE nxt
        s       == IF wrapped
                   THEN (IF l[1].is_filtered = 1 THEN 0 ELSE -1)
                   ELSE sel + 1
    IN IF ~wrapped /\ l[nxt].is_filtered = 0
       THEN find_walk(l, pos, nxt, sel, str)
       ELSE IF task_match(l[c], str) = 1
       THEN [ selline |-> s, nomatch |-> FALSE ]
       ELSE IF c = pos
       THEN [ selline |-> s, nomatch |-> TRUE ]
       ELSE find_walk(l, pos, c, s, str)

find_next_search_result(l, pos, sel, str) == find_walk(l, pos, pos, sel, str)

(***************************************************************************)
(* Status bar messages                                                     *)
(***************************************************************************)
MsgNone          == ""
MsgFilterApplied == "filter applied"
MsgFilterReset   == "filter yielded no results; reset"
MsgFilterInvalid == "invalid filter mode"
MsgSearchPrompt  == "search phrase: "
MsgNoMatches     == "no matches"
MsgNoSearch      == "no active search string"
MsgSortPrompt    == "enter sort mode: iNdex, Project, Due, pRiority"
MsgSortInvalid   == "invalid sort mode"
MsgReloaded      == "task list reloaded"
MsgUnhandled     == "unhandled key"

(***************************************************************************)
(* Keys                                                                    *)
(***************************************************************************)
\* the filter mode a key of "acdptACDPT" selects
FilterModeOf(c) ==
    CASE c = "a" -> FILTER_BY_STRING
      [] c = "c" -> FILTER_CLEAR
      [] c = "d" -> FILTER_DESCRIPTION
      [] c = "p" -> FILTER_PROJECT
      [] c = "t" -> FILTER_TAGS

FilterKeys   == { "a", "c", "d", "p", "t" }
Directions   == { -1, 1, -2, 2 }
InvalidKey   == "?"

(***************************************************************************)
(* Task actions                                                            *)
(***************************************************************************)
ACTION_EDIT     == 0
ACTION_COMPLETE == 1
ACTION_DELETE   == 2
ACTION_VIEW     == 3
Actions == { ACTION_EDIT, ACTION_COMPLETE, ACTION_DELETE, ACTION_VIEW }

\* the word task_action puts in the command
actionstr(action) ==
    CASE action = ACTION_EDIT     -> "edit"
      [] action = ACTION_COMPLETE -> "done"
      [] action = ACTION_DELETE   -> "del"
      [] OTHER                    -> "info"

\* the messages handle_keypress hands to key_task_action
msg_success(action) ==
    CASE action = ACTION_EDIT     -> "task edited"
      [] action = ACTION_COMPLETE -> "task completed"
      [] action = ACTION_DELETE   -> "task deleted"
      [] OTHER                    -> ""
msg_fail(action) ==
    CASE action = ACTION_EDIT     -> "task edit failed"
      [] action = ACTION_COMPLETE -> "task complete failed"
      [] action = ACTION_DELETE   -> "task delete fail"
      [] OTHER                    -> ""

\* no command has been handed to system() yet (the uuids of the export are
\* 1, 2, ...)
NoCommand == [ uuid |-> 0, actionstr |-> "" ]

(***************************************************************************)
(* Initial state: main has built the list, nc_main has counted it          *)
(***************************************************************************)
Init ==
    /\ \E export \in Exports \ { <<>> }, m \in SortInputs :
          /\ sortmode = m
          /\ head = get_tasks(export, m)
    /\ active_filters = <<>>
    /\ filter_persist \in {0, 1}
    /\ filter_cascade \in {0, 1}
    /\ filter_persist = 0 => filter_cascade = 1    \* cascade is read under persist only
    /\ searchstring = NULL
    /\ selline = 0
    /\ pageoffset = 0
    /\ taskcount = task_count(head).taskcount
    /\ totaltaskcount = task_count(head).totaltaskcount
    /\ rows \in Rows
    /\ statusbar = MsgNone
    /\ pc = "idle"
    /\ cmd = <<>>
    /\ line = <<>>
    /\ heap = <<>>
    /\ action_cmd = NoCommand

\* the top of the main loop: getmaxyx reads the height the window has had since
\* the last KEY_RESIZE, getch reads a key
Turn == pc = "idle" /\ rows' = rows /\ cmd' = cmd /\ line' = line
        /\ heap' = heap /\ action_cmd' = action_cmd

(***************************************************************************)
(* One action per key                                                      *)
(***************************************************************************)
key_scroll(direction) ==
    /\ Turn
    /\ LET cp == check_curs_pos(scroll_line(direction, selline, taskcount),
                                pageoffset, taskcount, rows)
       IN /\ selline' = cp.selline
          /\ pageoffset' = cp.pageoffset
    /\ statusbar' = MsgNone
    /\ UNCHANGED << head, active_filters, filter_persist, filter_cascade, sortmode,
                    searchstring, taskcount, totaltaskcount, pc >>

\* the part of key_filter after the filter is allocated: add_filter, the check
\* for an empty list, check_curs_pos
apply_filter(this_filter) ==
    LET added == add_filter(head, active_filters, this_filter, filter_persist, filter_cascade)
        e     == IF added.taskcount = 0
                 THEN filter_tasks(added.head, added.active_filters, ClearFilter, filter_persist)
                 ELSE added
        cp    == check_curs_pos(selline, pageoffset, e.taskcount, rows)
    IN /\ head' = e.head
       /\ active_filters' = e.active_filters
       /\ taskcount' = e.taskcount
       /\ totaltaskcount' = e.totaltaskcount
       /\ statusbar' = IF added.taskcount = 0 THEN MsgFilterReset ELSE MsgFilterApplied
       /\ selline' = cp.selline
       /\ pageoffset' = cp.pageoffset

key_filter(c, tmpstr) ==
    /\ Turn
    /\ IF c \notin FilterKeys
       THEN /\ statusbar' = MsgFilterInvalid
            /\ UNCHANGED << head, active_filters, taskcount, totaltaskcount,
                            selline, pageoffset >>
       ELSE LET this_filter == [ mode   |-> FilterModeOf(c),
                                 string |-> IF c = "c" THEN NULL ELSE tmpstr ]
            IN /\ \/ filter_persist = 0
                  \/ filter_cascade = 0
                  \/ c = "c"
                  \/ Len(active_filters) < MaxChain
               /\ apply_filter(this_filter)
    /\ UNCHANGED << filter_persist, filter_cascade, sortmode, searchstring, pc >>

\* find_next_search_result(head, sel_task(head)), check_curs_pos; a walk from
\* a NULL position dereferences it
search_from_selection(prompt) ==
    LET pos == sel_task(head, selline)
    IN IF pos = 0
       THEN /\ pc' = "segv"
            /\ statusbar' = prompt
            /\ UNCHANGED << selline, pageoffset >>
       ELSE LET r  == find_next_search_result(head, pos, selline, searchstring')
                cp == check_curs_pos(r.selline, pageoffset, taskcount, rows)
            IN /\ selline' = cp.selline
               /\ pageoffset' = cp.pageoffset
               /\ statusbar' = IF r.nomatch THEN MsgNoMatches ELSE prompt
               /\ pc' = pc

key_search(str) ==
    /\ Turn
    /\ searchstring' = str
    /\ search_from_selection(MsgSearchPrompt)
    /\ UNCHANGED << head, active_filters, filter_persist, filter_cascade, sortmode,
                    taskcount, totaltaskcount >>

\* key_search_next without the test of searchstring
key_search_next_unchecked ==
    /\ Turn
    /\ searchstring' = searchstring
    /\ search_from_selection(MsgNone)
    /\ UNCHANGED << head, active_filters, filter_persist, filter_cascade, sortmode,
                    taskcount, totaltaskcount >>

key_search_next ==
    /\ Turn
    /\ searchstring' = searchstring
    /\ IF searchstring # NULL
       THEN search_from_selection(MsgNone)
       ELSE /\ statusbar' = MsgNoSearch
            /\ UNCHANGED << selline, pageoffset, pc >>
    /\ UNCHANGED << head, active_filters, filter_persist, filter_cascade, sortmode,
                    taskcount, totaltaskcount >>

key_sort(m) ==
    /\ Turn
    /\ IF m \in SortModes
       THEN /\ sortmode' = m
            /\ statusbar' = MsgSortPrompt
            /\ IF head = <<>>
               THEN pc' = "segv" /\ head' = head
               ELSE pc' = pc /\ head' = sort_wrapper(head, m)
       ELSE /\ statusbar' = MsgSortInvalid
            /\ UNCHANGED << sortmode, head, pc >>
    /\ UNCHANGED << active_filters, filter_persist, filter_cascade, searchstring,
                    selline, pageoffset, taskcount, totaltaskcount >>

\* 'r': the key only raises the reload flag
key_reload ==
    /\ Turn
    /\ statusbar' = MsgReloaded
    /\ pc' = "reload"
    /\ UNCHANGED << head, active_filters, filter_persist, filter_cascade, sortmode,
                    searchstring, selline, pageoffset, taskcount, totaltaskcount >>

\* KEY_RESIZE: getch has taken in a new window height; the key itself is not
\* handled
key_resize ==
    /\ pc = "idle"
    /\ rows' \in Rows \ { rows }
    /\ statusbar' = MsgUnhandled
    /\ UNCHANGED << head, active_filters, filter_persist, filter_cascade, sortmode,
                    searchstring, selline, pageoffset, taskcount, totaltaskcount, pc,
                    cmd, line, heap,
                    action_cmd >>

(***************************************************************************)
(* The reload, step by step, in the turn that raised the flag              *)
(***************************************************************************)
\* reload_tasks frees the list; get_tasks reads the export and links the nodes
reload_rebuild ==
    /\ pc = "reload"
    /\ \E export \in Exports : head' = build_list(export)
    /\ pc' = "rebuilt"
    /\ UNCHANGED << active_filters, filter_persist, filter_cascade, sortmode,
                    searchstring, selline, pageoffset, taskcount, totaltaskcount,
                    rows, statusbar, cmd, line, heap,
                    action_cmd >>

\* the end of get_tasks: sort_wrapper, unless the list is empty
reload_sort ==
    /\ pc = "rebuilt"
    /\ head' = IF head # <<>> THEN sort_wrapper(head, sortmode) ELSE head
    /\ pc' = "sorted"
    /\ UNCHANGED << active_filters, filter_persist, filter_cascade, sortmode,
                    searchstring, selline, pageoffset, taskcount, totaltaskcount,
                    rows, statusbar, cmd, line, heap,
                    action_cmd >>

\* nc_main after reload_tasks: task_count, filter_tasks(active_filters),
\* check_curs_pos; the redraw follows
reload_filter ==
    /\ pc = "sorted"
    /\ LET counted == task_count(head)
           e  == IF active_filters # <<>>
                 THEN filter_tasks(head, active_filters, active_filters[1], filter_persist)
                 ELSE Engine(head, counted.taskcount, counted.totaltaskcount, active_filters)
           cp == check_curs_pos(selline, pageoffset, e.taskcount, rows)
       IN /\ head' = e.head
          /\ active_filters' = e.active_filters
          /\ taskcount' = e.taskcount
          /\ totaltaskcount' = e.totaltaskcount
          /\ selline' = cp.selline
          /\ pageoffset' = cp.pageoffset
    /\ pc' = "idle"
    /\ UNCHANGED << filter_persist, filter_cascade, sortmode, searchstring, rows,
                    statusbar, cmd, line, heap,
                    action_cmd >>

Next ==
    \/ \E d \in Directions : key_scroll(d)
    \/ \E in \in FilterInputs : key_filter(in[1], in[2])
    \/ \E str \in Patterns : key_search(str)
    \/ key_search_next
    \/ \E m \in SortInputs \cup { InvalidKey } : key_sort(m)
    \/ key_reload
    \/ key_resize
    \/ reload_rebuild
    \/ reload_sort
    \/ reload_filter

Spec == Init /\ [][Next]_vars

(***************************************************************************)
(* Vocabulary of the properties                                            *)
(***************************************************************************)
Positions(l)      == 1..Len(l)
Visible(l)        == { i \in Positions(l) : l[i].is_filtered = 1 }
VisibleCount(l)   == Cardinality(Visible(l))
VisibleUuids(l)   == { l[i].uuid : i \in Visible(l) }
ViewportHeight    == rows - BarRows
AtRender          == pc = "idle"
InViewport        == pageoffset <= selline /\ selline <= pageoffset + ViewportHeight

\* the steps that carry out a scroll, a jump, a filter, a search or a reload
ScrollStep     == \E d \in Directions : key_scroll(d)
FilterStep     == \E in \in FilterInputs : in[1] \in FilterKeys /\ key_filter(in[1], in[2])
SearchStep     == \E str \in Patterns : key_search(str)
SearchNextStep == searchstring # NULL /\ key_search_next
ReloadStep     == reload_filter
ViewStep       == ScrollStep \/ FilterStep \/ SearchStep \/ SearchNextStep \/ ReloadStep

(***************************************************************************)
(* C1: once a scroll, jump, filter, search or reload has completed and at  *)
(* least one record is visible, the selected line is one of the visible    *)
(* lines: 0 <= selected-line <= visible-count - 1.                         *)
(***************************************************************************)
C1_SelectionInRange ==
    (AtRender /\ VisibleCount(head) >= 1)
        => (0 <= selline /\ selline <= VisibleCount(head) - 1)

\* a filter has narrowed the list and the selection is on its last visible line
C1_Witness ==
    /\ AtRender
    /\ statusbar = MsgFilterApplied
    /\ VisibleCount(head) >= 2
    /\ VisibleCount(head) < Len(head)
    /\ selline = VisibleCount(head) - 1

(***************************************************************************)
(* C2: a scroll, jump, filter, search or reload that leaves at least one   *)
(* record visible leaves the selected line inside the page:                *)
(* page-offset <= selected-line <= page-offset + viewport-height, the      *)
(* viewport height being the window height less 3.                         *)
(***************************************************************************)
C2_SelectionOnPage ==
    [][ (ViewStep /\ pc' = "idle" /\ VisibleCount(head') >= 1)
            => (/\ pageoffset' <= selline'
                /\ selline' <= pageoffset' + (rows' - 3)) ]_vars

\* the page has been moved down to keep the selection on its last row
C2_Witness ==
    /\ AtRender
    /\ statusbar = MsgNone
    /\ pageoffset >= 1
    /\ selline = pageoffset + ViewportHeight

(***************************************************************************)
(* Vocabulary of the filter properties                                     *)
(***************************************************************************)
FilterOf(in)   == [ mode |-> FilterModeOf(in[1]), string |-> in[2] ]
NonClearInputs == { in \in FilterInputs : in[1] \in FilterKeys \ { "c" } }
Matches(t, f)  == filter_node(t, f.mode, f.string) = 1
MatchesAll(t, chain) == \A k \in 1..Len(chain) : Matches(t, chain[k])

\* the user filter action with the non-clear filter of input in
NonClearFilterStep(in) == in \in NonClearInputs /\ key_filter(in[1], in[2])

\* the filter of input in leaves no record of the current list visible
LeavesNone(in) ==
    \A i \in Positions(head) :
        ~ ( /\ (filter_persist = 0 \/ head[i].is_filtered = 1)
            /\ Matches(head[i], FilterOf(in)) )

Unfiltered(l, tc, ttc, chain) ==
    /\ Visible(l) = Positions(l)
    /\ tc = Len(l)
    /\ ttc = Len(l)
    /\ chain = <<>>

(***************************************************************************)
(* C3: a user filter action whose non-clear filter leaves no record        *)
(* visible ends with every record visible, visible-count = total-count,    *)
(* an empty active filter chain and the status message "filter yielded no  *)
(* results; reset".                                                        *)
(***************************************************************************)
C3_EmptyResultResets ==
    [][ \A in \in NonClearInputs :
            (NonClearFilterStep(in) /\ LeavesNone(in))
                => /\ Unfiltered(head', taskcount', totaltaskcount', active_filters')
                   /\ statusbar' = MsgFilterReset ]_vars

(***************************************************************************)
(* C4 as stated: with persistence on, the records visible after a          *)
(* non-clear user filter action are among those visible before it.         *)
(***************************************************************************)
C4_Monotone_AsStated ==
    [][ \A in \in NonClearInputs :
            (filter_persist = 1 /\ NonClearFilterStep(in))
                => VisibleUuids(head') \subseteq VisibleUuids(head) ]_vars

(***************************************************************************)
(* C4 as amended: with persistence on, the records visible after a         *)
(* non-clear user filter action that leaves at least one record visible    *)
(* are among those visible before it.                                      *)
(***************************************************************************)
C4_Monotone ==
    [][ \A in \in NonClearInputs :
            (filter_persist = 1 /\ NonClearFilterStep(in) /\ ~LeavesNone(in))
                => VisibleUuids(head') \subseteq VisibleUuids(head) ]_vars

\* a second persistent filter has narrowed what the first left
C4_Witness ==
    /\ AtRender
    /\ filter_persist = 1
    /\ statusbar = MsgFilterApplied
    /\ Len(active_filters) = 2
    /\ VisibleCount(head) = 1
    /\ Len(head) >= 3

(***************************************************************************)
(* Filter actions alone, persistence and cascade both on: no reload        *)
(***************************************************************************)
InitCascade == Init /\ filter_persist = 1 /\ filter_cascade = 1

NextCascade ==
    \/ \E d \in Directions : key_scroll(d)
    \/ \E in \in FilterInputs : key_filter(in[1], in[2])
    \/ \E str \in Patterns : key_search(str)
    \/ key_search_next
    \/ \E m \in SortInputs \cup { InvalidKey } : key_sort(m)
    \/ key_resize

SpecCascade == InitCascade /\ [][NextCascade]_vars

(***************************************************************************)
(* C5: with persistence and cascade on, after non-clear filter actions     *)
(* F1..Fn that each leave a record visible, a record is visible if and     *)
(* only if it matches every one of F1..Fn, and the active chain is         *)
(* F1, ..., Fn in the order of application (each action appends its        *)
(* filter to the chain).                                                   *)
(***************************************************************************)
C5_CascadeAnds ==
    /\ [] ( \A i \in Positions(head) :
                head[i].is_filtered = 1 <=> MatchesAll(head[i], active_filters) )
    /\ [][ \A in \in NonClearInputs :
               (NonClearFilterStep(in) /\ ~LeavesNone(in))
                   => active_filters' = Append(active_filters, FilterOf(in)) ]_vars

\* two filters are chained and a record that matches the first is hidden by
\* the second
C5_Witness ==
    /\ AtRender
    /\ Len(active_filters) = 2
    /\ VisibleCount(head) >= 1
    /\ \E i \in Positions(head) :
          /\ head[i].is_filtered = 0
          /\ Matches(head[i], active_filters[1])
          /\ ~Matches(head[i], active_filters[2])

(***************************************************************************)
(* C6: when a reload has completed, a record of the rebuilt list is        *)
(* visible if and only if it matches every filter of the active chain.     *)
(***************************************************************************)
C6_ReloadReappliesChain ==
    (AtRender /\ statusbar = MsgReloaded)
        => \A i \in Positions(head) :
               head[i].is_filtered = 1 <=> MatchesAll(head[i], active_filters)

(***************************************************************************)
(* Vocabulary of the reload properties                                     *)
(***************************************************************************)
\* no record of l has to come before a record that precedes it in l
Sorted(l, mode) ==
    \A i, j \in Positions(l) : i < j => compare_tasks(l[j], l[i], mode) # 1

\* l is as the parse loop links it: export order, every record visible
Fresh(l) ==
    \A i \in Positions(l) : l[i].index = i - 1 /\ l[i].is_filtered = 1

\* only the filter at the head of the chain has been applied to l
HeadFilterApplied(l, chain) ==
    \A i \in Positions(l) :
        l[i].is_filtered = 1 <=> (chain = <<>> \/ Matches(l[i], chain[1]))

VisibleMatches(l, str) == { i \in Visible(l) : task_match(l[i], str) = 1 }

\* the d-th position after pos in list order, wrapping at the end of l
CyclicAfter(l, pos, d) == ((pos - 1 + d) % Len(l)) + 1

\* the first visible match after pos in list order with wraparound (pos
\* itself comes last)
NextVisibleMatch(l, pos, str) ==
    LET d == CHOOSE d \in 1..Len(l) :
                 /\ CyclicAfter(l, pos, d) \in VisibleMatches(l, str)
                 /\ \A e \in 1..(d - 1) :
                        CyclicAfter(l, pos, e) \notin VisibleMatches(l, str)
    IN CyclicAfter(l, pos, d)

\* a search or a search-next that walks the list from the selected record
SearchWalk == (SearchStep \/ SearchNextStep) /\ sel_task(head, selline) # 0

(***************************************************************************)
(* C8: when the pattern matches at least one visible record, search-next   *)
(* from a visible record selects the next visible matching record in list  *)
(* order with wraparound, so that repeated calls cycle through exactly the *)
(* visible matches; the record selected after a call is visible and        *)
(* matches.                                                                *)
(***************************************************************************)
C8_SearchNextCycles ==
    [][ ( /\ SearchNextStep
          /\ sel_task(head, selline) # 0
          /\ VisibleMatches(head, searchstring) # {} )
            => sel_task(head', selline')
                   = NextVisibleMatch(head, sel_task(head, selline), searchstring) ]_vars

(***************************************************************************)
(* C9: a search or a search-next whose pattern matches no visible record   *)
(* reports "no matches" and leaves the selected line unchanged, whatever   *)
(* the pattern matches among the hidden records.                           *)
(***************************************************************************)
C9_NoVisibleMatch ==
    [][ (SearchWalk /\ VisibleMatches(head, searchstring') = {})
            => (statusbar' = MsgNoMatches /\ selline' = selline) ]_vars

(***************************************************************************)
(* C10: search-next with no active search pattern reports "no active       *)
(* search string" and walks nothing: selected line, page offset,           *)
(* visibility flags and list order are unchanged.                          *)
(***************************************************************************)
C10_NoActiveSearch ==
    [][ (searchstring = NULL /\ key_search_next)
            => /\ statusbar' = MsgNoSearch
               /\ selline' = selline
               /\ pageoffset' = pageoffset
               /\ head' = head ]_vars

\* search-next was pressed with no pattern while a filter hid records and
\* the selection was below the first line
C10_Witness ==
    /\ AtRender
    /\ statusbar = MsgNoSearch
    /\ searchstring = NULL
    /\ selline >= 1
    /\ Visible(head) # Positions(head)

(***************************************************************************)
(* The sort engine alone: every export of up to MaxTasks - 1 tasks out of  *)
(* a pool in which every task has a twin with the same fields, every sort  *)
(* mode; the keys are sort and reload                                      *)
(***************************************************************************)
SortIds == 1..(2 * Len(PoolDue))

SortExports ==
    { export \in UNION { [1..n -> SortIds] : n \in 1..(MaxTasks - 1) } :
          \A i, j \in DOMAIN export : i # j => export[i] # export[j] }

InitSort ==
    /\ \E export \in SortExports, m \in SortModes :
          /\ sortmode = m
          /\ head = get_tasks(export, m)
    /\ active_filters = <<>>
    /\ filter_persist = 1
    /\ filter_cascade = 1
    /\ searchstring = NULL
    /\ selline = 0
    /\ pageoffset = 0
    /\ taskcount = task_count(head).taskcount
    /\ totaltaskcount = task_count(head).totaltaskcount
    /\ rows = MinRows
    /\ statusbar = MsgNone
    /\ pc = "idle"
    /\ cmd = <<>>
    /\ line = <<>>
    /\ heap = <<>>
    /\ action_cmd = NoCommand

NextSort ==
    \/ \E m \in SortModes \cup { InvalidKey } : key_sort(m)
    \/ key_reload
    \/ reload_rebuild
    \/ reload_sort
    \/ reload_filter

SpecSort == InitSort /\ [][NextSort]_vars

\* the ids of the records of l, in list order
IndexOrder(l) == [ i \in Positions(l) |-> l[i].index ]

(***************************************************************************)
(* C11: in every mode of the comparator and for every pair of records a,   *)
(* b, compare(a, b) and compare(b, a) are never both "a first".            *)
(***************************************************************************)
C11_Antisymmetric ==
    \A m \in SortModes : \A i, j \in Positions(head) :
        ~ ( /\ compare_tasks(head[i], head[j], m) = 1
            /\ compare_tasks(head[j], head[i], m) = 1 )

\* the list holds a pair the comparator orders and a pair of distinct
\* records it leaves tied
C11_Witness ==
    /\ AtRender
    /\ statusbar = MsgSortPrompt
    /\ \E i, j \in Positions(head) :
          /\ compare_tasks(head[i], head[j], sortmode) = 1
          /\ compare_tasks(head[j], head[i], sortmode) = 0
    /\ \E i, j \in Positions(head) :
          /\ i # j
          /\ compare_tasks(head[i], head[j], sortmode) = 0
          /\ compare_tasks(head[j], head[i], sortmode) = 0

\* the records of l, by uuid, in list order
UuidOrder(l) == [ i \in Positions(l) |-> l[i].uuid ]

\* the sort key pressed with mode m on a list that holds a record
SortStep(m) == m \in SortModes /\ head # <<>> /\ key_sort(m)

(***************************************************************************)
(* C12: sorting a list that was just sorted in the same mode leaves the    *)
(* order of the records unchanged, in every mode and for every list.       *)
(***************************************************************************)
C12_SortIdempotent ==
    [][ \A m \in SortModes :
            (SortStep(m) /\ m = sortmode /\ Sorted(head, m))
                => UuidOrder(head') = UuidOrder(head) ]_vars

\* l with its records put in the order f, a permutation of the positions
Reordered(l, f) == [ i \in Positions(l) |-> l[f[i]] ]

(***************************************************************************)
(* C13: in every mode the comparator is a total order without ties: of     *)
(* two distinct records exactly one is "first" for the other, and so the   *)
(* sorted order of a list depends on its records and the mode alone, not   *)
(* on the order the list had before the sort.                              *)
(***************************************************************************)
C13_TotalOrder ==
    \A m \in SortModes :
        /\ \A i, j \in Positions(head) :
               i # j => ( (compare_tasks(head[i], head[j], m) = 1)
                              # (compare_tasks(head[j], head[i], m) = 1) )
        /\ head # <<>> =>
               \A f \in Permutations(Positions(head)) :
                   UuidOrder(sort_wrapper(Reordered(head, f), m))
                       = UuidOrder(sort_wrapper(head, m))

\* the list holds the three tasks (X, due 100), (Y, no due), (X, due 50),
\* exported in this order
ThreeTaskList(l) ==
    /\ Len(l) = 3
    /\ \A i \in Positions(l) : l[i].uuid = l[i].index + 1

(***************************************************************************)
(* C14: after a sort in mode m, and at every render afterwards while the   *)
(* mode stays m, the list is in the order of the mode's comparator: no     *)
(* record stands before a record that the comparator puts first.  The      *)
(* list of the three tasks (X, due 100), (Y, no due), (X, due 50) has      *)
(* index order 2, 0, 1 in mode d and 0, 2, 1 once re-sorted in mode p.     *)
(***************************************************************************)
C14_StaysSorted ==
    /\ AtRender => Sorted(head, sortmode)
    /\ head # <<>> => \A m \in SortModes : Sorted(sort_wrapper(head, m), m)
    /\ (AtRender /\ ThreeTaskList(head) /\ sortmode = "d")
           => /\ IndexOrder(head) = << 2, 0, 1 >>
              /\ IndexOrder(sort_wrapper(head, "p")) = << 0, 2, 1 >>

\* the three tasks have been reloaded in mode d and a filter hides one
C14_Witness ==
    /\ AtRender
    /\ statusbar = MsgReloaded
    /\ sortmode = "d"
    /\ ThreeTaskList(head)
    /\ IndexOrder(head) = << 2, 0, 1 >>
    /\ VisibleCount(head) = 2

\* the screen is drawn with the list last sorted in mode m
SortedIn(m) == AtRender /\ sortmode = m

(***************************************************************************)
(* C15: after a sort in mode p the records are in lexicographic order of   *)
(* project, every record without project comes after every record with a   *)
(* project, and records with equal project, two records without project    *)
(* included, are in ascending order of id.                                 *)
(***************************************************************************)
C15_ProjectOrder ==
    SortedIn("p") =>
        \A i, j \in Positions(head) : i < j =>
            LET a == head[i]
                b == head[j]
            IN /\ ~ (a.project = NULL /\ b.project # NULL)
               /\ (a.project # NULL /\ b.project # NULL)
                      => strcmp(a.project, b.project) <= 0
               /\ a.project = b.project => a.index < b.index

(***************************************************************************)
(* C16: after a sort in mode d every record with a due date comes before   *)
(* every record without one, the records with a due date are in ascending  *)
(* order of due date, and the records without due date are among           *)
(* themselves in the order of mode r.                                      *)
(***************************************************************************)
C16_DueOrder ==
    SortedIn("d") =>
        \A i, j \in Positions(head) : i < j =>
            LET a == head[i]
                b == head[j]
            IN /\ ~ (a.due = 0 /\ b.due # 0)
               /\ (a.due # 0 /\ b.due # 0) => a.due <= b.due
               /\ (a.due = 0 /\ b.due = 0) => compare_tasks(b, a, "r") # 1

\* mode d has been chosen with the sort key; the list holds two records with
\* different due dates and two without due date that mode r tells apart
C16_Witness ==
    /\ SortedIn("d")
    /\ statusbar = MsgSortPrompt
    /\ \E i, j \in Positions(head) :
          head[i].due # 0 /\ head[j].due # 0 /\ head[i].due # head[j].due
    /\ \E i, j \in Positions(head) :
          /\ head[i].due = 0 /\ head[j].due = 0
          /\ compare_tasks(head[i], head[j], "r") = 1

\* H, M, L in the order of mode r
PriorityRank(c) == CASE c = "H" -> 1 [] c = "M" -> 2 [] c = "L" -> 3 [] OTHER -> 4

(***************************************************************************)
(* C17: after a sort in mode r the records with a priority come before     *)
(* the records without, the records with a priority are in the order H,    *)
(* M, L, and records of equal priority, the records without priority       *)
(* included, are among themselves in the order of mode p.                  *)
(***************************************************************************)
C17_PriorityOrder ==
    SortedIn("r") =>
        \A i, j \in Positions(head) : i < j =>
            LET a == head[i]
                b == head[j]
            IN /\ ~ (a.priority = "" /\ b.priority # "")
               /\ (a.priority # "" /\ b.priority # "")
                      => PriorityRank(a.priority) <= PriorityRank(b.priority)
               /\ a.priority = b.priority => compare_tasks(b, a, "p") # 1

\* mode r has been chosen with the sort key; the list holds records of two
\* different priorities and two of equal priority that mode p tells apart
C17_Witness ==
    /\ SortedIn("r")
    /\ statusbar = MsgSortPrompt
    /\ \E i, j \in Positions(head) :
          /\ head[i].priority # "" /\ head[j].priority # ""
          /\ head[i].priority # head[j].priority
    /\ \E i, j \in Positions(head) :
          /\ head[i].priority = head[j].priority
          /\ compare_tasks(head[i], head[j], "p") = 1

\* every record of l has its 0-based position for id
IdIsPosition(l) == \A i \in Positions(l) : l[i].index = i - 1

\* which id each record of l carries
IdOfRecord(l) == { << l[i].uuid, l[i].index >> : i \in Positions(l) }

\* a step that sorts the list: the sort key, or the sort that ends a rebuild
AnySortStep == reload_sort \/ \E m \in SortModes : SortStep(m)

(***************************************************************************)
(* C18 as stated: after every rebuild of the list and after every sort,    *)
(* in every mode, each record's id equals its 0-based position in the      *)
(* list.                                                                   *)
(***************************************************************************)
C18_IdIsPosition ==
    pc \in { "rebuilt", "sorted", "idle" } => IdIsPosition(head)

(***************************************************************************)
(* C18 as amended: when the list has been rebuilt, and before the sort     *)
(* that ends the rebuild, each record's id equals its 0-based position; a  *)
(* sort moves the id with its record, so that every record keeps its id    *)
(* and the ids remain 0..n-1, each once; after a sort in mode n each       *)
(* record's id equals its position again.                                  *)
(***************************************************************************)
C18_IdTravels ==
    /\ [] ( pc = "rebuilt" => IdIsPosition(head) )
    /\ [][ AnySortStep => IdOfRecord(head') = IdOfRecord(head) ]_vars
    /\ [] ( { head[i].index : i \in Positions(head) } = 0..(Len(head) - 1) )
    /\ [] ( SortedIn("n") => IdIsPosition(head) )

\* the sort key has moved a record away from the position its id names
C18_Witness ==
    /\ AtRender
    /\ statusbar = MsgSortPrompt
    /\ Len(head) = MaxTasks - 1
    /\ \A i \in Positions(head) : head[i].index # i - 1

\* the user filter action with the clear filter
ClearStep == key_filter("c", NULL)

(***************************************************************************)
(* C19: a clear filter action, whatever persistence and cascade are set    *)
(* to and whatever filters were applied before, makes every record         *)
(* visible, sets visible-count to total-count and leaves the active        *)
(* filter chain empty.                                                     *)
(***************************************************************************)
C19_ClearResets ==
    [][ ClearStep
            => Unfiltered(head', taskcount', totaltaskcount', active_filters') ]_vars

(***************************************************************************)
(* Vocabulary of the matching properties                                   *)
(***************************************************************************)
\* s with every letter in lower case
Fold(s) == [ i \in 1..Len(s) |-> ToLower(s[i]) ]

\* the field is present and the pattern P occurs in it, letter case aside
FieldMatches(field, P) ==
    /\ field # NULL
    /\ \E k \in 0..(Len(field) - Len(P)) :
          SubSeq(Fold(field), k + 1, k + Len(P)) = Fold(P)

\* what a filter of the given mode with pattern P is to show
ToBeVisible(t, mode, P) ==
    CASE mode = FILTER_DESCRIPTION -> FieldMatches(t.description, P)
      [] mode = FILTER_TAGS        -> FieldMatches(t.tags, P)
      [] mode = FILTER_PROJECT     -> FieldMatches(t.project, P)
      [] OTHER -> \/ FieldMatches(t.project, P)
                  \/ FieldMatches(t.description, P)
                  \/ FieldMatches(t.tags, P)

(***************************************************************************)
(* C20: applied to a list in which every record is visible, a filter by    *)
(* description, by tags or by project with pattern P makes a record        *)
(* visible if and only if that field is present and matches P, and a       *)
(* filter by any field if and only if one of project, description, tags    *)
(* is present and matches P; a record whose tested field is absent is      *)
(* never visible.  So does the user filter action, when the filter leaves  *)
(* a record visible.                                                       *)
(***************************************************************************)
C20_FilterShowsMatches ==
    /\ [] ( Visible(head) = Positions(head) =>
              \A in \in NonClearInputs : \A persist \in {0, 1} :
                  LET f == FilterOf(in)
                      e == filter_tasks(head, active_filters, f, persist)
                  IN \A i \in Positions(head) :
                         e.head[i].is_filtered = 1
                             <=> ToBeVisible(head[i], f.mode, f.string) )
    /\ [][ \A in \in NonClearInputs :
               ( /\ NonClearFilterStep(in)
                 /\ Visible(head) = Positions(head)
                 /\ ~LeavesNone(in) )
                   => \A i \in Positions(head) :
                          head'[i].is_filtered = 1
                              <=> ToBeVisible(head[i], FilterOf(in).mode,
                                              FilterOf(in).string) ]_vars

\* a filter by project is the only one applied; it shows a record and hides
\* a record that has no project
C20_Witness ==
    /\ AtRender
    /\ statusbar = MsgFilterApplied
    /\ Len(active_filters) = 1
    /\ active_filters[1].mode = FILTER_PROJECT
    /\ VisibleCount(head) >= 1
    /\ \E i \in Positions(head) : head[i].project = NULL /\ head[i].is_filtered = 0

\* persistence on, cascade off
ReplaceMode == filter_persist = 1 /\ filter_cascade = 0

(***************************************************************************)
(* C21: with persistence on and cascade off the active chain holds at      *)
(* most one filter after any sequence of user filter actions, and a        *)
(* filter it holds is the non-clear filter applied last: a filter action   *)
(* leaves the chain empty or holding its own filter alone, and nothing     *)
(* but a filter action changes the chain.                                  *)
(***************************************************************************)
C21_ChainOfOne ==
    /\ [] ( ReplaceMode => Len(active_filters) <= 1 )
    /\ [][ ReplaceMode =>
             /\ \A in \in NonClearInputs :
                    NonClearFilterStep(in)
                        => active_filters' \in { <<>>, << FilterOf(in) >> }
             /\ \A in \in NonClearInputs :
                    (NonClearFilterStep(in) /\ ~LeavesNone(in))
                        => active_filters' = << FilterOf(in) >>
             /\ ClearStep => active_filters' \in { <<>>, active_filters }
             /\ active_filters' # active_filters => FilterStep ]_vars

\* the chain holds one filter, and a record that matches it is hidden: an
\* earlier filter hid it and was replaced on the chain
C21_Witness ==
    /\ AtRender
    /\ ReplaceMode
    /\ statusbar = MsgFilterApplied
    /\ Len(active_filters) = 1
    /\ \E i \in Positions(head) :
          head[i].is_filtered = 0 /\ Matches(head[i], active_filters[1])

(***************************************************************************)
(* C22: with persistence off, a user filter action with a non-clear        *)
(* filter F that matches at least one record makes visible exactly the     *)
(* records that match F, whatever was visible before, and does not put F   *)
(* on the active filter chain.                                             *)
(***************************************************************************)
C22_FilterOverwrites ==
    [][ \A in \in NonClearInputs :
            ( /\ filter_persist = 0
              /\ NonClearFilterStep(in)
              /\ \E i \in Positions(head) :
                     ToBeVisible(head[i], FilterOf(in).mode, FilterOf(in).string) )
                => /\ \A i \in Positions(head) :
                          head'[i].is_filtered = 1
                              <=> ToBeVisible(head[i], FilterOf(in).mode,
                                              FilterOf(in).string)
                   /\ active_filters' = active_filters
                   /\ active_filters' = <<>> ]_vars

\* without persistence a filter by project is followed by a filter that
\* shows a record without project
C22_Witness ==
    /\ AtRender
    /\ filter_persist = 0
    /\ statusbar = MsgFilterApplied
    /\ active_filters = <<>>
    /\ VisibleCount(head) < Len(head)
    /\ \E i \in Positions(head) : head[i].is_filtered = 1 /\ head[i].project = NULL
    /\ \E i \in Positions(head) : head[i].is_filtered = 1 /\ head[i].project # NULL

(***************************************************************************)
(* Startup: main reads the export as text, a line at a time                *)
(***************************************************************************)
InitParse ==
    /\ cmd \in TextExports
    /\ line = <<>>
    /\ heap = <<>>
    /\ action_cmd = NoCommand
    /\ head = <<>>
    /\ sortmode \in SortInputs
    /\ active_filters = <<>>
    /\ filter_persist = 1
    /\ filter_cascade = 1
    /\ searchstring = NULL
    /\ selline = 0
    /\ pageoffset = 0
    /\ taskcount = 0
    /\ totaltaskcount = 0
    /\ rows = MinRows
    /\ statusbar = MsgNone
    /\ pc = "get_tasks"

\* one turn of the loop of get_tasks: fgets, remove_char, parse_task, the
\* linking of the task.  On "return NULL" main prints that the task list is
\* empty and returns 1; the line buffer is not freed.
get_tasks_read ==
    /\ pc = "get_tasks"
    /\ cmd # <<>>
    /\ cmd' = Tail(cmd)
    /\ LET this == get_tasks_loop(head, Head(cmd))
       IN CASE this.returned = "loop" ->
                  /\ head' = this.head
                  /\ line' = <<>>
                  /\ pc' = pc
            [] this.returned = "NULL" ->
                  /\ head' = <<>>
                  /\ line' = remove_char(Head(cmd), "\\")
                  /\ pc' = "exit"
            [] this.returned = "SIGSEGV" ->
                  /\ head' = head
                  /\ line' = remove_char(Head(cmd), "\\")
                  /\ pc' = "segv"
    /\ UNCHANGED << active_filters, filter_persist, filter_cascade, sortmode,
                    searchstring, selline, pageoffset, taskcount, totaltaskcount,
                    rows, statusbar, heap, action_cmd >>

\* fgets returns NULL: get_tasks sorts the list and returns it; main leaves
\* when it is empty, nc_main counts it otherwise
get_tasks_return ==
    /\ pc = "get_tasks"
    /\ cmd = <<>>
    /\ IF head = <<>>
       THEN /\ pc' = "exit"
            /\ UNCHANGED << head, taskcount, totaltaskcount >>
       ELSE /\ head' = sort_wrapper(head, sortmode)
            /\ taskcount' = task_count(head').taskcount
            /\ totaltaskcount' = task_count(head').totaltaskcount
            /\ pc' = "idle"
    /\ UNCHANGED << active_filters, filter_persist, filter_cascade, sortmode,
                    searchstring, selline, pageoffset, rows, statusbar, cmd, line, heap,
                    action_cmd >>

NextParse ==
    \/ get_tasks_read
    \/ get_tasks_return

SpecParse == InitParse /\ [][NextParse]_vars

\* what parse_task makes of the line get_tasks reads next
ParsedLine == parse_task(remove_char(Head(cmd), "\\"))

LacksField(this) ==
    this.returned = "tsk" /\ (this.tsk.uuid = NULL \/ this.tsk.description = NULL)

(***************************************************************************)
(* C23: if any record of the export lacks uuid or description after        *)
(* parsing, the whole list build fails (no task list is returned to the    *)
(* caller), instead of skipping only that record.                          *)
(***************************************************************************)
C23_MissingFieldFailsLoad ==
    [][ (get_tasks_read /\ LacksField(ParsedLine))
        => (pc' = "exit" /\ head' = <<>>) ]_vars

\* the build has failed on a record without uuid or description, with a
\* record of the export still unread
C23_Witness ==
    /\ pc = "exit"
    /\ head = <<>>
    /\ line # <<>>
    /\ LacksField(parse_task(line))
    /\ cmd # <<>>

C25_ParserRoundTrip ==
    [][ \A rec \in ExportRecords :
          (/\ get_tasks_read
           /\ Head(cmd) = JsonLine(rec)
           /\ HasField(rec, F_uuid)
           /\ HasField(rec, F_description))
          => /\ pc' = "get_tasks"
             /\ Len(head') = Len(head) + 1
             /\ head'[Len(head')].uuid = FieldValue(rec, F_uuid)
             /\ head'[Len(head')].description = FieldValue(rec, F_description) ]_vars

(***************************************************************************)
(* C26: once startup has succeeded no sequence of keys and reloads puts    *)
(* the program in a fatal state: after a reload with an empty or           *)
(* malformed export every sort, search, scroll and filter stays well       *)
(* defined and never works on an absent list or an absent selected         *)
(* record.                                                                 *)
(***************************************************************************)
C26_NeverFatal == pc # "segv"

(***************************************************************************)
(* C27: when the selected record is the only visible record that matches   *)
(* the pattern, search-next reports "no matches" and leaves the selected   *)
(* line unchanged.                                                         *)
(***************************************************************************)
C27_OnlyMatchIsSelected ==
    [][ ( /\ SearchNextStep
          /\ sel_task(head, selline) # 0
          /\ VisibleMatches(head, searchstring) = { sel_task(head, selline) } )
            => (statusbar' = MsgNoMatches /\ selline' = selline) ]_vars

\* the number of visible records of l that precede position pos
VisibleBefore(l, pos) == Cardinality({ i \in Visible(l) : i < pos })

(***************************************************************************)
(* C28: a search step that does not end in "no matches" selects, from the  *)
(* selected record s, the first visible record matching the pattern that   *)
(* is met walking from just after s in link order with wraparound, and     *)
(* sets the selected line to the number of visible records that precede    *)
(* the record found.                                                       *)
(***************************************************************************)
C28_SearchFindsNext ==
    [][ (SearchWalk /\ statusbar' # MsgNoMatches)
            => /\ VisibleMatches(head, searchstring') # {}
               /\ LET found == NextVisibleMatch(head, sel_task(head, selline),
                                                searchstring')
                  IN /\ sel_task(head', selline') = found
                     /\ selline' = VisibleBefore(head, found) ]_vars

(***************************************************************************)
(* C29: the cursor check that ends a scroll, jump, filter, search or       *)
(* reload moves the page only when needed: a selected line on the page     *)
(* leaves page-offset unchanged, a selected line above the page becomes    *)
(* the page-offset, and a selected line below the page sets page-offset    *)
(* to selected-line - viewport-height, which makes the selection the last  *)
(* row drawn.                                                              *)
(***************************************************************************)
C29_PageMovesWhenNeeded ==
    [][ ViewStep =>
          LET height == rows - 3
          IN /\ (pageoffset <= selline' /\ selline' <= pageoffset + height)
                    => pageoffset' = pageoffset
             /\ selline' < pageoffset => pageoffset' = selline'
             /\ selline' > pageoffset + height
                    => /\ pageoffset' = selline' - height
                       /\ \A drawn \in drawn_lines(pageoffset', rows', taskcount') :
                              drawn <= selline' ]_vars

\* the page stands below the top of the list and the selection is on its
\* first row
C29_Witness ==
    /\ AtRender
    /\ statusbar = MsgNone
    /\ pageoffset >= 1
    /\ selline = pageoffset
    /\ selline \in drawn_lines(pageoffset, rows, taskcount)

(***************************************************************************)
(* C30: after every filter pass, every user filter action and every        *)
(* reload, visible-count is the number of records whose visible flag is    *)
(* set and total-count is the number of records of the list, so that       *)
(* visible-count <= total-count at every render.                           *)
(***************************************************************************)
C30_CountsAgree ==
    /\ AtRender =>
          /\ taskcount = VisibleCount(head)
          /\ totaltaskcount = Len(head)
          /\ taskcount <= totaltaskcount
    /\ \A in \in FilterInputs : \A persist \in {0, 1} :
          in[1] \in FilterKeys =>
              LET e == filter_tasks(head, active_filters, FilterOf(in), persist)
              IN /\ e.taskcount = VisibleCount(e.head)
                 /\ e.totaltaskcount = Len(e.head)

\* a reload has brought a list that the retained filter hides a part of
C30_Witness ==
    /\ AtRender
    /\ statusbar = MsgReloaded
    /\ active_filters # <<>>
    /\ taskcount >= 1
    /\ taskcount < totaltaskcount

(***************************************************************************)
(* C31: with persistence on, a single non-clear filter pass never makes a  *)
(* hidden record visible: the records hidden before the pass are stepped   *)
(* over and stay hidden, and only the records visible before the pass are  *)
(* evaluated against the new predicate.  So does the user filter action    *)
(* whose filter leaves a record visible.                                   *)
(***************************************************************************)
C31_HiddenStayHidden ==
    /\ [] ( \A in \in NonClearInputs :
              LET f == FilterOf(in)
                  e == filter_tasks(head, active_filters, f, 1)
              IN \A i \in Positions(head) :
                     e.head[i].is_filtered =
                         IF head[i].is_filtered = 0 THEN 0
                         ELSE IF ToBeVisible(head[i], f.mode, f.string) THEN 1
                         ELSE 0 )
    /\ [][ \A in \in NonClearInputs :
               (filter_persist = 1 /\ NonClearFilterStep(in) /\ ~LeavesNone(in))
                   => \A i \in Positions(head) :
                          head[i].is_filtered = 0 => head'[i].is_filtered = 0 ]_vars

\* a second persistent filter has been applied, and a record the first filter
\* hid matches it
C31_Witness ==
    /\ AtRender
    /\ filter_persist = 1
    /\ statusbar = MsgFilterApplied
    /\ Len(active_filters) = 2
    /\ \E i \in Positions(head) :
          /\ head[i].is_filtered = 0
          /\ ~Matches(head[i], active_filters[1])
          /\ Matches(head[i], active_filters[2])
    /\ \E i \in Positions(head) : head[i].is_filtered = 1


\* how many nodes of l hold the record t, every field counted
Copies(l, t) == Cardinality({ i \in Positions(l) : l[i] = t })

AlgorithmStep ==
    /\ head # <<>>
    /\ \/ \E m \in SortModes : key_sort(m)
       \/ FilterStep
       \/ SearchStep
       \/ SearchNextStep

(***************************************************************************)
(* C34: for every non-empty task list, every visibility assignment, every  *)
(* sort mode and every search pattern, the sort, the filter pass and the   *)
(* search walk run to completion within the turn that started them: the    *)
(* handler returns to the main loop, whether or not a match exists.        *)
(***************************************************************************)
C34_RunsToCompletion ==
    [][ AlgorithmStep => pc' = "idle" ]_vars


(***************************************************************************)
(* C35: at every render, if the task list holds at least one record then   *)
(* at least one record is visible (visible-count >= 1), for any sequence   *)
(* of filter actions and reloads, a reload after which the retained        *)
(* filter matches none of the rebuilt records included.                    *)
(***************************************************************************)
C35_SomeRecordVisible ==
    (AtRender /\ head # <<>>) => (VisibleCount(head) >= 1 /\ taskcount >= 1)


\* the records of l, by uuid
Uuids(l) == { l[i].uuid : i \in Positions(l) }

\* the list a reload ends its turn with, l being the list it has rebuilt:
\* the steps reload_sort and reload_filter
ReloadEndsWith(l) ==
    LET sorted == IF l # <<>> THEN sort_wrapper(l, sortmode) ELSE l
    IN IF active_filters # <<>>
       THEN filter_tasks(sorted, active_filters, active_filters[1], filter_persist).head
       ELSE sorted

(***************************************************************************)
(* C37: if the external export is unchanged, a reload leaves the set of    *)
(* visible records unchanged, for every persistence/cascade configuration  *)
(* and every history of filter actions since the last clear.               *)
(***************************************************************************)
C37_ReloadKeepsVisible ==
    [][ (reload_rebuild /\ Uuids(head') = Uuids(head))
        => VisibleUuids(ReloadEndsWith(head')) = VisibleUuids(head) ]_vars

(***************************************************************************)
(* C38: at every render with visible-count >= 1, the render that follows   *)
(* a terminal resize in a turn where no key was pressed included, the      *)
(* selected line lies within the rows that are drawn: page-offset <=       *)
(* selected-line <= page-offset + viewport-height for the viewport height  *)
(* in force at that render.  (A turn in which getch times out changes      *)
(* nothing: its render shows the state the resize has left.)               *)
(***************************************************************************)
C38_SelectionDrawn ==
    (AtRender /\ VisibleCount(head) >= 1) => InViewport


(***************************************************************************)
(* C39: selected-line and page-offset are never negative in any reachable  *)
(* state, for any sequence of scroll, jump, filter, search and reload      *)
(* operations, those that pass through a state with visible-count = 0      *)
(* included.                                                               *)
(***************************************************************************)
C39_NeverNegative ==
    selline >= 0 /\ pageoffset >= 0



(***************************************************************************)
(* Task actions on the selected record: 'e', 'c', 'd' and 'v'              *)
(***************************************************************************)
\* key_task_action with task_action inside it, for a taskwarrior of version
\* 2 or later: the command names the uuid of the node sel_task returns.
\* sel_task returning NULL, cur->uuid is a read through a null pointer; ret
\* is what system() returns
key_task_action(action) ==
    /\ pc = "idle"
    /\ LET cur == sel_task(head, selline)
       IN IF cur = 0
          THEN /\ pc' = "segv"
               /\ UNCHANGED << action_cmd, statusbar >>
          ELSE /\ action_cmd' = [ uuid |-> head[cur].uuid, actionstr |-> actionstr(action) ]
               /\ \E ret \in {0, 1} :
                     statusbar' = IF ret = 0 THEN msg_success(action) ELSE msg_fail(action)
               /\ pc' = IF action = ACTION_VIEW THEN "idle" ELSE "reload"
    /\ UNCHANGED << head, active_filters, filter_persist, filter_cascade, sortmode,
                    searchstring, selline, pageoffset, taskcount, totaltaskcount,
                    rows, cmd, line, heap >>

InitAction ==
    /\ Init
    /\ filter_persist = 1
    /\ filter_cascade = 1
    /\ sortmode = "n"
    /\ rows = MinRows

NextAction ==
    \/ \E d \in Directions : key_scroll(d)
    \/ \E in \in FilterInputs : key_filter(in[1], in[2])
    \/ \E a \in Actions : key_task_action(a)
    \/ key_reload
    \/ reload_rebuild
    \/ reload_sort
    \/ reload_filter

SpecAction == InitAction /\ [][NextAction]_vars

\* a task action has handed its command to system()
TaskActionStep == (\E a \in Actions : key_task_action(a)) /\ pc' # "segv"

(***************************************************************************)
(* C36: every task action (edit, complete, delete, view) is applied to a   *)
(* record that is visible at that moment, the record shown on the          *)
(* selected line (the selected-line-th visible record); an action is       *)
(* never applied to a hidden record.                                       *)
(***************************************************************************)
C36_ActionOnSelectedVisible ==
    [][ TaskActionStep
        => \E i \in Visible(head) :
              /\ VisibleBefore(head, i) = selline
              /\ action_cmd'.uuid = head[i].uuid ]_vars



(***************************************************************************)
(* The filter chain as the structs it is made of: active_filters is the    *)
(* address of the first struct (0 for NULL), heap is what each address     *)
(* holds                                                                   *)
(***************************************************************************)
\* the addresses calloc hands out for task_filter structs
Addrs == 1..(MaxChain + 1)

\* a task_filter struct, and memory that holds none: it was freed, or it is
\* a struct that no pointer leads to any more, which is never read again and
\* whose address stands for a fresh one
task_filter(mode, string, next) ==
    [ allocated |-> TRUE, mode |-> mode, string |-> string, next |-> next ]
NoStruct == [ allocated |-> FALSE, mode |-> -1, string |-> NULL, next |-> 0 ]

\* the addresses calloc may return
calloc(mem) == { a \in Addrs : ~mem[a].allocated }

\* structs that are left behind without being freed
leak(mem, S) == [ a \in Addrs |-> IF a \in S THEN NoStruct ELSE mem[a] ]

\* the addresses a walk along next visits from n on, at most fuel of them
RECURSIVE chain_walk(_, _, _)
chain_walk(mem, n, fuel) ==
    IF n = 0 \/ fuel = 0 THEN <<>>
    ELSE <<n>> \o chain_walk(mem, mem[n].next, fuel - 1)

Chain(mem, first) == chain_walk(mem, first, Cardinality(Addrs) + 1)

ChainSet(mem, first) ==
    LET w == Chain(mem, first) IN { w[i] : i \in 1..Len(w) }

\* while (n->next!=NULL) n = n->next: the struct at the end of the chain
RECURSIVE chain_last(_, _, _)
chain_last(mem, n, fuel) ==
    IF mem[n].next = 0 \/ fuel = 0 THEN n
    ELSE chain_last(mem, mem[n].next, fuel - 1)

\* the walk of FILTER_CLEAR: free every struct from n on; a struct that is
\* its own successor ("circularly linked task filters") ends the walk
RECURSIVE free_chain(_, _, _)
free_chain(mem, n, fuel) ==
    IF n = 0 \/ fuel = 0 THEN mem
    ELSE IF n = mem[n].next THEN mem
    ELSE free_chain([mem EXCEPT ![n] = NoStruct], mem[n].next, fuel - 1)

Structs(l, tc, ttc, first, mem) ==
    [ head |-> l, taskcount |-> tc, totaltaskcount |-> ttc,
      active_filters |-> first, heap |-> mem ]

\* filter_tasks that frees the chain and keeps pointing at it
filter_tasks_structs_keeps_pointer(l, first, mem, this_filter, persist) ==
    LET e      == filter_tasks(l, <<>>, this_filter, persist)
        clears == this_filter.mode = FILTER_CLEAR /\ l # <<>> /\ first # 0
    IN Structs(e.head, e.taskcount, e.totaltaskcount, first,
               IF clears THEN free_chain(mem, first, Cardinality(Addrs)) ELSE mem)

\* filter_tasks: the walk over the task list, and under FILTER_CLEAR, at the
\* first task, the walk that frees the chain
filter_tasks_structs(l, first, mem, this_filter, persist) ==
    LET e      == filter_tasks(l, <<>>, this_filter, persist)
        clears == this_filter.mode = FILTER_CLEAR /\ l # <<>> /\ first # 0
    IN Structs(e.head, e.taskcount, e.totaltaskcount,
               IF clears THEN 0 ELSE first,
               IF clears THEN free_chain(mem, first, Cardinality(Addrs)) ELSE mem)

\* add_filter, this being the address of this_filter: apply the filter, then
\* append the struct to the chain (cascade), or make it the chain, the old
\* chain being left behind (no cascade), or leave the struct behind (no
\* persistence, FILTER_CLEAR)
add_filter_structs(l, first, mem, this, persist, cascade) ==
    LET f == [ mode |-> mem[this].mode, string |-> mem[this].string ]
        e == filter_tasks_structs(l, first, mem, f, persist)
    IN IF persist # 0 /\ f.mode # FILTER_CLEAR
       THEN IF cascade # 0
            THEN IF e.active_filters = 0
                 THEN [e EXCEPT !.active_filters = this]
                 ELSE LET n == chain_last(e.heap, e.active_filters, Cardinality(Addrs))
                      IN [e EXCEPT !.heap[n].next = this]
            ELSE [e EXCEPT !.active_filters = this,
                           !.heap = leak(@, ChainSet(e.heap, e.active_filters))]
       ELSE [e EXCEPT !.heap = leak(@, {this})]

\* key_filter: calloc of this_filter, add_filter, the reset of an empty
\* result with a FILTER_CLEAR filter on the stack, check_curs_pos
key_filter_structs(c, tmpstr) ==
    /\ pc = "idle"
    /\ IF c \notin FilterKeys
       THEN /\ statusbar' = MsgFilterInvalid
            /\ UNCHANGED << head, active_filters, heap, taskcount, totaltaskcount,
                            selline, pageoffset >>
       ELSE /\ \/ filter_persist = 0
               \/ filter_cascade = 0
               \/ c = "c"
               \/ Len(Chain(heap, active_filters)) < MaxChain
            /\ \E this \in calloc(heap) :
                  LET mem   == [heap EXCEPT ![this] =
                                   task_filter(FilterModeOf(c),
                                               IF c = "c" THEN NULL ELSE tmpstr, 0)]
                      added == add_filter_structs(head, active_filters, mem, this,
                                                  filter_persist, filter_cascade)
                      e     == IF added.taskcount = 0
                               THEN filter_tasks_structs(added.head, added.active_filters,
                                                         added.heap, ClearFilter, filter_persist)
                               ELSE added
                      cp    == check_curs_pos(selline, pageoffset, e.taskcount, rows)
                  IN /\ head' = e.head
                     /\ active_filters' = e.active_filters
                     /\ heap' = e.heap
                     /\ taskcount' = e.taskcount
                     /\ totaltaskcount' = e.totaltaskcount
                     /\ statusbar' = IF added.taskcount = 0 THEN MsgFilterReset
                                     ELSE MsgFilterApplied
                     /\ selline' = cp.selline
                     /\ pageoffset' = cp.pageoffset
    /\ UNCHANGED << filter_persist, filter_cascade, sortmode, searchstring, rows,
                    pc, cmd, line, action_cmd >>

\* 'r' and the reload of the same turn: reload_tasks, task_count,
\* filter_tasks(active_filters), check_curs_pos
key_reload_structs ==
    /\ pc = "idle"
    /\ \E export \in Exports :
          LET l       == get_tasks(export, sortmode)
              counted == task_count(l)
              e  == IF active_filters # 0
                    THEN filter_tasks_structs(l, active_filters, heap,
                                              [ mode   |-> heap[active_filters].mode,
                                                string |-> heap[active_filters].string ],
                                              filter_persist)
                    ELSE Structs(l, counted.taskcount, counted.totaltaskcount,
                                 active_filters, heap)
              cp == check_curs_pos(selline, pageoffset, e.taskcount, rows)
          IN /\ head' = e.head
             /\ active_filters' = e.active_filters
             /\ heap' = e.heap
             /\ taskcount' = e.taskcount
             /\ totaltaskcount' = e.totaltaskcount
             /\ selline' = cp.selline
             /\ pageoffset' = cp.pageoffset
    /\ statusbar' = MsgReloaded
    /\ UNCHANGED << filter_persist, filter_cascade, sortmode, searchstring, rows,
                    pc, cmd, line, action_cmd >>

\* ":set filter_persist <n>" and ":set filter_cascade <n>"
set_filter_persist(n) ==
    /\ pc = "idle"
    /\ filter_persist' = n
    /\ statusbar' = IF n = 0 THEN "filter_persist: 0" ELSE "filter_persist: 1"
    /\ UNCHANGED << head, active_filters, heap, filter_cascade, sortmode, searchstring,
                    selline, pageoffset, taskcount, totaltaskcount, rows, pc, cmd,
                    line, action_cmd >>

set_filter_cascade(n) ==
    /\ pc = "idle"
    /\ filter_cascade' = n
    /\ statusbar' = IF n = 0 THEN "filter_cascade: 0" ELSE "filter_cascade: 1"
    /\ UNCHANGED << head, active_filters, heap, filter_persist, sortmode, searchstring,
                    selline, pageoffset, taskcount, totaltaskcount, rows, pc, cmd,
                    line, action_cmd >>

\* configure leaves persistence and cascade on; no filter is active
InitChain ==
    /\ \E export \in Exports \ { <<>> } : head = get_tasks(export, "n")
    /\ sortmode = "n"
    /\ active_filters = 0
    /\ heap = [ a \in Addrs |-> NoStruct ]
    /\ filter_persist = 1
    /\ filter_cascade = 1
    /\ searchstring = NULL
    /\ selline = 0
    /\ pageoffset = 0
    /\ taskcount = task_count(head).taskcount
    /\ totaltaskcount = task_count(head).totaltaskcount
    /\ rows = MinRows
    /\ statusbar = MsgNone
    /\ pc = "idle"
    /\ cmd = <<>>
    /\ line = <<>>
    /\ action_cmd = NoCommand

\* the filters typed: one of each kind of outcome (a filter that keeps some
\* records, one that keeps others, the clear, an invalid key)
ChainInputs == { << "t", <<"x">> >>, << "d", <<"y">> >>, << "c", NULL >>, << "?", NULL >> }

NextChain ==
    \/ \E in \in ChainInputs : key_filter_structs(in[1], in[2])
    \/ key_reload_structs
    \/ \E n \in {0, 1} : set_filter_persist(n)
    \/ \E n \in {0, 1} : set_filter_cascade(n)

SpecChain == InitChain /\ [][NextChain]_vars

(***************************************************************************)
(* C32: under any sequence of filter actions (all modes, clear and the     *)
(* empty-result reset included), reloads, and runtime changes of the       *)
(* persistence and cascade settings, the active filter chain is a finite   *)
(* acyclic singly linked list: no struct is reached twice on the walk      *)
(* from active_filters, none is its own successor (the test for a          *)
(* circular chain in the walk that frees the chain never succeeds), every  *)
(* struct on it is allocated, and the walk ends at NULL.                   *)
(***************************************************************************)
C32_ChainAcyclic ==
    LET w == Chain(heap, active_filters)
    IN /\ \A i, j \in 1..Len(w) : i # j => w[i] # w[j]
       /\ \A i \in 1..Len(w) : heap[w[i]].allocated /\ heap[w[i]].next # w[i]
       /\ Len(w) <= Cardinality(Addrs)
       /\ w # <<>> => heap[w[Len(w)]].next = 0

\* a chain of two structs, re-applied by a reload after persistence and
\* cascade were switched off at runtime
C32_Witness ==
    /\ Len(Chain(heap, active_filters)) = 2
    /\ filter_persist = 0
    /\ filter_cascade = 0
    /\ statusbar = MsgReloaded


====
